---- MODULE Spec2Model ----
(***************************************************************************)
(* A model of src/bot.py: the indicator engine (compute_indicators), the   *)
(* signal evaluator (evaluate_conditions), the consensus aggregator        *)
(* (analyze_symbol) and the polling loop (__main__).                       *)
(*                                                                         *)
(* Numbers.  The program computes in IEEE doubles through pandas.  The     *)
(* model computes the same formulas over exact rationals, so that a        *)
(* comparison in the model is the comparison of the real values the        *)
(* doubles approximate.  TLC's integers are 32 bits wide, and an           *)
(* exponential average over n rows has a denominator q^n, so rationals are *)
(* kept as arbitrary-precision numerators (sequences of base-10000 limbs)  *)
(* over a denominator held as a product of powers of small primes times a  *)
(* residual.  NaN is a value of its own and propagates as in IEEE          *)
(* arithmetic; every comparison with NaN is false.                         *)
(*                                                                         *)
(* pandas semantics are those of pandas 1.x/2.x, for which the program was *)
(* written (Series.fillna(method=...) and the in-place fillna through      *)
(* df["RSI"] both work there).                                             *)
(***************************************************************************)
EXTENDS Integers, Sequences, FiniteSets, TLC

(***************************************************************************)
(* Arbitrary-precision naturals: little-endian limbs, no high zero limb,   *)
(* zero is the empty sequence.                                             *)
(***************************************************************************)
LimbBase == 100 * 100

\* A function over 1..n as an explicit sequence: its entries are evaluated once.
Vec(f) == f \o <<>>

RECURSIVE MagNorm(_)
MagNorm(m) ==
  IF m = <<>> THEN <<>>
  ELSE IF m[Len(m)] = 0 THEN MagNorm(SubSeq(m, 1, Len(m) - 1))
  ELSE m

RECURSIVE MagAddC(_, _, _)
MagAddC(a, b, c) ==
  IF a = <<>> /\ b = <<>> THEN (IF c = 0 THEN <<>> ELSE <<c>>)
  ELSE LET x == (IF a = <<>> THEN 0 ELSE Head(a))
                + (IF b = <<>> THEN 0 ELSE Head(b)) + c
       IN  <<x % LimbBase>>
           \o MagAddC(IF a = <<>> THEN <<>> ELSE Tail(a),
                      IF b = <<>> THEN <<>> ELSE Tail(b),
                      x \div LimbBase)

MagAdd(a, b) == MagAddC(a, b, 0)

\* a - b for a >= b, before normalisation
RECURSIVE MagSubB(_, _, _)
MagSubB(a, b, br) ==
  IF a = <<>> THEN <<>>
  ELSE LET x == Head(a) - (IF b = <<>> THEN 0 ELSE Head(b)) - br
       IN  <<IF x < 0 THEN x + LimbBase ELSE x>>
           \o MagSubB(Tail(a), IF b = <<>> THEN <<>> ELSE Tail(b),
                      IF x < 0 THEN 1 ELSE 0)

MagSub(a, b) == MagNorm(MagSubB(a, b, 0))

\* -1, 0, 1 as a < b, a = b, a > b
RECURSIVE MagCmpFrom(_, _, _)
MagCmpFrom(a, b, i) ==
  IF i = 0 THEN 0
  ELSE IF a[i] < b[i] THEN -1
  ELSE IF a[i] > b[i] THEN 1
  ELSE MagCmpFrom(a, b, i - 1)

MagCmp(a, b) ==
  IF Len(a) < Len(b) THEN -1
  ELSE IF Len(a) > Len(b) THEN 1
  ELSE MagCmpFrom(a, b, Len(a))

\* a * k + c for a native 0 <= k <= MaxFactor
RECURSIVE MagMulSmallC(_, _, _)
MagMulSmallC(a, k, c) ==
  IF a = <<>> THEN (IF c = 0 THEN <<>>
                    ELSE <<c % LimbBase>> \o MagMulSmallC(<<>>, k, c \div LimbBase))
  ELSE LET x == Head(a) * k + c
       IN  <<x % LimbBase>> \o MagMulSmallC(Tail(a), k, x \div LimbBase)

MagMulSmall(a, k) == IF k = 0 THEN <<>> ELSE IF k = 1 THEN a ELSE MagMulSmallC(a, k, 0)

MagShift(m) == IF m = <<>> THEN <<>> ELSE <<0>> \o m

RECURSIVE MagMul(_, _)
MagMul(a, b) ==
  IF a = <<>> \/ b = <<>> THEN <<>>
  ELSE IF b = <<1>> THEN a
  ELSE IF a = <<1>> THEN b
  ELSE MagAdd(MagMulSmall(a, Head(b)), MagShift(MagMul(a, Tail(b))))

MaxFactor == 20 * LimbBase

RECURSIVE MagFromNat(_)
MagFromNat(k) ==
  IF k = 0 THEN <<>> ELSE <<k % LimbBase>> \o MagFromNat(k \div LimbBase)

(***************************************************************************)
(* Numbers: NaN, or the rational  (-1)^neg * num / (2^a 3^b 5^c 7^d 13^e   *)
(* 19^f * dr)  with the exponents in de.  The primes are those of the      *)
(* program's windows and spans (alpha = 1/4, 1/13, 2/13, 2/27, 1/5, 1/7,   *)
(* the divisors 14, 20 and 19), so the recurrences never need a gcd.       *)
(***************************************************************************)
Primes == <<2, 3, 5, 7, 13, 19>>
NPrimes == Len(Primes)
ZeroExp == Vec([i \in 1..NPrimes |-> 0])

\* the largest j with p^j <= MaxFactor, and p^j
RECURSIVE PowChunk(_, _, _)
PowChunk(p, j, acc) ==
  IF acc * p <= MaxFactor THEN PowChunk(p, j + 1, acc * p) ELSE [j |-> j, pow |-> acc]

ChunkOf == Vec([i \in 1..NPrimes |-> PowChunk(Primes[i], 0, 1)])

RECURSIVE IntPow(_, _)
IntPow(b, e) == IF e = 0 THEN 1 ELSE b * IntPow(b, e - 1)

\* PowerOf[i][e] = Primes[i]^e, for the powers up to MaxFactor
PowerOf == Vec([i \in 1..NPrimes |-> Vec([e \in 1..ChunkOf[i].j |-> IntPow(Primes[i], e)])])

\* a * Primes[i]^e, for e >= 0
RECURSIVE MagMulPow(_, _, _)
MagMulPow(a, i, e) ==
  IF e = 0 \/ a = <<>> THEN a
  ELSE IF e <= ChunkOf[i].j THEN MagMulSmall(a, PowerOf[i][e])
  ELSE MagMulPow(MagMulSmall(a, ChunkOf[i].pow), i, e - ChunkOf[i].j)

NaN == [nan |-> TRUE, neg |-> FALSE, num |-> <<>>, de |-> ZeroExp, dr |-> <<1>>]

FromInt(k) ==
  [nan |-> FALSE, neg |-> k < 0, num |-> MagFromNat(IF k < 0 THEN -k ELSE k),
   de |-> ZeroExp, dr |-> <<1>>]

Zero == FromInt(0)

MkNum(neg, num, de, dr) ==
  IF num = <<>> THEN Zero
  ELSE [nan |-> FALSE, neg |-> neg, num |-> num, de |-> de, dr |-> dr]

IsNaN(a) == a.nan
IsZero(a) == ~a.nan /\ a.num = <<>>

RECURSIVE ScaleFrom(_, _, _)
ScaleFrom(m, ex, i) ==
  IF i > NPrimes \/ m = <<>> THEN m ELSE ScaleFrom(MagMulPow(m, i, ex[i]), ex, i + 1)

\* m * prod Primes[i]^ex[i]
ScaleMag(m, ex) == ScaleFrom(m, ex, 1)

Neg(a) == IF a.nan \/ a.num = <<>> THEN a ELSE [a EXCEPT !.neg = ~a.neg]
Abs(a) == IF a.nan THEN a ELSE [a EXCEPT !.neg = FALSE]

\* an/(L, dr) with sign aneg plus bn/(L, dr) with sign bneg; c is MagCmp(an, bn)
AddSigned(aneg, bneg, an, bn, c, L, dr) ==
  IF aneg = bneg THEN MkNum(aneg, MagAdd(an, bn), L, dr)
  ELSE IF c = 0 THEN Zero
  ELSE IF c > 0 THEN MkNum(aneg, MagSub(an, bn), L, dr)
  ELSE MkNum(bneg, MagSub(bn, an), L, dr)

AddAligned(aneg, bneg, an, bn, L, dr) == AddSigned(aneg, bneg, an, bn, MagCmp(an, bn), L, dr)

\* a + b over the common denominator (L, dr)
AddOver(a, b, L, same) ==
  AddAligned(a.neg, b.neg,
             MagMul(ScaleMag(a.num, Vec([i \in 1..NPrimes |-> L[i] - a.de[i]])),
                    IF same THEN <<1>> ELSE b.dr),
             MagMul(ScaleMag(b.num, Vec([i \in 1..NPrimes |-> L[i] - b.de[i]])),
                    IF same THEN <<1>> ELSE a.dr),
             L,
             IF same THEN a.dr ELSE MagMul(a.dr, b.dr))

Add(a, b) ==
  IF a.nan \/ b.nan THEN NaN
  ELSE IF a.num = <<>> THEN b
  ELSE IF b.num = <<>> THEN a
  ELSE AddOver(a, b,
               Vec([i \in 1..NPrimes |-> IF a.de[i] > b.de[i] THEN a.de[i] ELSE b.de[i]]),
               a.dr = b.dr)

Sub(a, b) == Add(a, Neg(b))

\* a * k for a native integer k
MulInt(a, k) ==
  IF a.nan THEN NaN
  ELSE IF k = 0 THEN Zero
  ELSE MkNum(IF k < 0 THEN ~a.neg ELSE a.neg,
             MagMulSmall(a.num, IF k < 0 THEN -k ELSE k), a.de, a.dr)

RECURSIVE FactorExp(_, _)
FactorExp(k, p) == IF k % p = 0 THEN 1 + FactorExp(k \div p, p) ELSE 0

RECURSIVE StripFrom(_, _)
StripFrom(k, i) ==
  IF i > NPrimes THEN k
  ELSE IF k % Primes[i] = 0 THEN StripFrom(k \div Primes[i], i)
  ELSE StripFrom(k, i + 1)

\* a / k for a native integer k > 0
DivInt(a, k) ==
  IF a.nan THEN NaN
  ELSE MkNum(a.neg, a.num,
             Vec([i \in 1..NPrimes |-> a.de[i] + FactorExp(k, Primes[i])]),
             MagMulSmall(a.dr, StripFrom(k, 1)))

Mul(a, b) ==
  IF a.nan \/ b.nan THEN NaN
  ELSE MkNum(a.neg # b.neg, MagMul(a.num, b.num),
             Vec([i \in 1..NPrimes |-> a.de[i] + b.de[i]]), MagMul(a.dr, b.dr))

\* a / b.  Every divisor of the program has passed through replace(0, NaN)
\* or is 1 + rs >= 1, so b is NaN or nonzero; 0 as a divisor is given the
\* IEEE result of 0/0 for completeness.
Div(a, b) ==
  IF a.nan \/ b.nan \/ b.num = <<>> THEN NaN
  ELSE
    LET c    == Vec([i \in 1..NPrimes |-> IF a.de[i] < b.de[i] THEN a.de[i] ELSE b.de[i]])
        same == a.dr = b.dr
    IN  MkNum(a.neg # b.neg,
              MagMul(ScaleMag(a.num, Vec([i \in 1..NPrimes |-> b.de[i] - c[i]])),
                     IF same THEN <<1>> ELSE b.dr),
              Vec([i \in 1..NPrimes |-> a.de[i] - c[i]]),
              MagMul(b.num, IF same THEN <<1>> ELSE a.dr))

\* the sign of a - b, for numbers that are not NaN
Sign(s) == IF s.num = <<>> THEN 0 ELSE IF s.neg THEN -1 ELSE 1

Cmp(a, b) == IF a = b THEN 0 ELSE Sign(Sub(a, b))

\* IEEE comparisons: false when either side is NaN
Gt(a, b) == ~a.nan /\ ~b.nan /\ Cmp(a, b) = 1
Lt(a, b) == ~a.nan /\ ~b.nan /\ Cmp(a, b) = -1
Ge(a, b) == ~a.nan /\ ~b.nan /\ Cmp(a, b) >= 0
Le(a, b) == ~a.nan /\ ~b.nan /\ Cmp(a, b) <= 0
Eq(a, b) == ~a.nan /\ ~b.nan /\ Cmp(a, b) = 0

\* np.maximum(a, 0) and Series.clip: NaN stays NaN
Max0(a) == IF a.nan THEN NaN ELSE IF a.neg THEN Zero ELSE a
Min0(a) == IF a.nan THEN NaN ELSE IF a.neg THEN a ELSE Zero

\* Series.replace(0, np.nan)
ReplaceZero(a) == IF IsZero(a) THEN NaN ELSE a

\* Series.fillna(v)
FillNa(a, v) == IF a.nan THEN v ELSE a

(***************************************************************************)
(* A Bollinger band  mid + sgn * 2 * sqrt(var)  is not rational; it is     *)
(* kept as its two rational parts and compared exactly by squaring.        *)
(***************************************************************************)
Band(mid, var, sgn) ==
  [nan |-> mid.nan \/ var.nan, mid |-> mid, var |-> var, sgn |-> sgn]

\* x against mid + sgn * 2 sqrt(var), for d = x - mid and v4 = 4 var:
\* -1, 0, 1 as x is below, on, above the band
CmpRadical(s, t, sgn) ==
  IF sgn = 1
  THEN (IF s = 1 /\ t = 1 THEN 1 ELSE IF s = 1 /\ t = 0 THEN 0 ELSE -1)
  ELSE (IF s = -1 /\ t = 1 THEN -1 ELSE IF s = -1 /\ t = 0 THEN 0 ELSE 1)

CmpBandAt(d, v4, sgn) ==
  IF v4.num = <<>> THEN Sign(d) ELSE CmpRadical(Sign(d), Cmp(Mul(d, d), v4), sgn)

CmpBand(x, b) == CmpBandAt(Sub(x, b.mid), MulInt(b.var, 4), b.sgn)

\* x > band, x < band: false when either side is NaN
GtBand(x, b) == ~x.nan /\ ~b.nan /\ CmpBand(x, b) = 1
LtBand(x, b) == ~x.nan /\ ~b.nan /\ CmpBand(x, b) = -1

\* the band's value is the rational c (its radical vanishes)
BandIs(b, c) == ~b.nan /\ IsZero(b.var) /\ Eq(b.mid, c)


(***************************************************************************)
(* Program constants (src/bot.py, CONFIG).                                 *)
(***************************************************************************)
SYMBOLS_FIXED == <<"BTCUSDT", "ETHUSDT", "SOLUSDT", "XRPUSDT">>
TIMEFRAMES == <<"1m", "5m", "15m", "30m", "1h">>
LIMIT == 100
EMA_FAST == 7
EMA_SLOW == 25
RSI_WINDOW == 7
ADX_WINDOW == 14
BB_WINDOW == 20
VOL_WINDOW == 20
MACD_FAST == 12
MACD_SLOW == 26
MACD_SIGNAL == 9
ADX_THRESHOLD == 25
RSI_BUY_MIN == 50
RSI_BUY_MAX == 65
RSI_SELL_MIN == 35
RSI_SELL_MAX == 50
FETCH_TIMEOUT == 10

(***************************************************************************)
(* pandas operations on a column (a sequence of numbers, row 1 first).     *)
(***************************************************************************)
\* Series.shift(), row i and the whole column
Prev(xs, i) == IF i = 1 THEN NaN ELSE xs[i - 1]
Shift(xs) == Vec([i \in 1..Len(xs) |-> Prev(xs, i)])

\* Series.diff()
Diff(xs) == Vec([i \in 1..Len(xs) |-> Sub(xs[i], Shift(xs)[i])])

\* One step of Series.ewm(alpha = p/q, adjust=False, ignore_na=False).mean():
\* w is the running mean, gap the number of NaN rows since the last
\* observation (each multiplies the old weight by 1 - alpha), cur the row.
\* An observation equal to the running mean leaves it untouched.
EwmStep(w, gap, cur, p, q) ==
  IF ~w.nan
  THEN IF ~cur.nan
       THEN IF Eq(w, cur) THEN w
            ELSE LET A == IntPow(q - p, gap + 1)
                     B == p * IntPow(q, gap)
                 IN  DivInt(Add(MulInt(w, A), MulInt(cur, B)), A + B)
       ELSE w
  ELSE cur

\* row i, from the state st = [acc: the rows before i, gap]
EwmRow(xs, p, q, i, st) ==
  [acc |-> Append(st.acc, EwmStep(Prev(st.acc, i), st.gap, xs[i], p, q)),
   gap |-> IF ~Prev(st.acc, i).nan /\ xs[i].nan THEN st.gap + 1 ELSE 0]

\* rows lo..hi (lo <= hi) in order, from the state st, which holds the rows
\* before lo: the first half of the rows, then the second half from the
\* state it leaves
RECURSIVE EwmRun(_, _, _, _, _, _)
EwmRun(xs, p, q, lo, hi, st) ==
  IF Len(st.acc) # lo - 1 THEN st
  ELSE IF lo = hi THEN EwmRow(xs, p, q, lo, st)
  ELSE EwmRun(xs, p, q, (lo + hi) \div 2 + 1, hi,
              EwmRun(xs, p, q, lo, (lo + hi) \div 2, st))

\* Series.ewm(alpha = p/q, adjust=False).mean(), min_periods = 0
Ewm(xs, p, q) ==
  IF xs = <<>> THEN <<>> ELSE EwmRun(xs, p, q, 1, Len(xs), [acc |-> <<>>, gap |-> 0]).acc

\* ewm(span=s): alpha = 2/(s+1);  ewm(com=c): alpha = 1/(1+c)
EwmSpan(xs, s) == Ewm(xs, 2, s + 1)
EwmCom(xs, c) == Ewm(xs, 1, 1 + c)

\* xs[lo] + ... + xs[hi]
RECURSIVE SumRange(_, _, _)
SumRange(xs, lo, hi) ==
  IF lo > hi THEN Zero
  ELSE IF lo = hi THEN xs[lo]
  ELSE Add(SumRange(xs, lo, (lo + hi) \div 2), SumRange(xs, (lo + hi) \div 2 + 1, hi))

\* Series.rolling(window=w).sum(): min_periods = w, NaN if any row is NaN
RollingSum(xs, w) ==
  Vec([i \in 1..Len(xs) |-> IF i < w THEN NaN ELSE SumRange(xs, i - w + 1, i)])

\* Series.rolling(window=w).mean()
RollingMean(xs, w) ==
  Vec([i \in 1..Len(xs) |-> IF i < w THEN NaN ELSE DivInt(SumRange(xs, i - w + 1, i), w)])

Square(x) == Mul(x, x)
Squares(xs) == Vec([j \in 1..Len(xs) |-> Square(xs[j])])

\* Series.rolling(window=w).std() squared: the sample variance (ddof = 1),
\* (w * sum x^2 - (sum x)^2) / (w * (w - 1))
RollingVar(xs, w) ==
  Vec([i \in 1..Len(xs) |->
     IF i < w THEN NaN
     ELSE DivInt(Sub(MulInt(SumRange(Squares(xs), i - w + 1, i), w),
                     Square(SumRange(xs, i - w + 1, i))),
                 w * (w - 1))])

RECURSIVE BfillAt(_, _)
BfillAt(xs, i) ==
  IF i > Len(xs) THEN NaN
  ELSE IF ~xs[i].nan THEN xs[i]
  ELSE BfillAt(xs, i + 1)

\* Series.fillna(method="bfill")
Bfill(xs) == Vec([i \in 1..Len(xs) |-> BfillAt(xs, i)])

\* DataFrame.max(axis=1) over three columns: NaN entries are skipped
Max2(x, y) ==
  IF x.nan THEN y ELSE IF y.nan THEN x ELSE IF Cmp(x, y) >= 0 THEN x ELSE y

Max3(a, b, c) == Max2(Max2(a, b), c)

\* df[name] = col: the other columns as they are, column name set to col
SetCol(frame, name, col) == [c \in DOMAIN frame \ {name} |-> frame[c]] @@ (name :> col)


(***************************************************************************)
(* compute_indicators(df): the frame is a function from column names to    *)
(* columns.  Every  df[name] = ...  of the code is a SetCol on the frame   *)
(* it was given: the frame returned is that same object.                   *)
(***************************************************************************)
CandleColumns == {"high", "low", "close", "volume"}

Rows(frame) == Len(frame["close"])

\* lines 55-61: the EMA pair, MACD and its signal line
EmaFast(frame) == SetCol(frame, "EMA_fast", EwmSpan(frame["close"], EMA_FAST))
EmaSlow(frame) == SetCol(frame, "EMA_slow", EwmSpan(frame["close"], EMA_SLOW))

MacdOf(ema_fast, ema_slow) ==
  Vec([i \in 1..Len(ema_fast) |-> Sub(ema_fast[i], ema_slow[i])])

Macd(frame) ==
  SetCol(frame, "MACD",
         MacdOf(EwmSpan(frame["close"], MACD_FAST), EwmSpan(frame["close"], MACD_SLOW)))

MacdSignal(frame) == SetCol(frame, "MACD_signal", EwmSpan(frame["MACD"], MACD_SIGNAL))

\* a faulty variant: the undefined RSI is left undefined
RsiNoFill(x) == x

RsiFill(x) == FillNa(x, FromInt(50))

\* lines 63-70: RSI
UpMove(delta) == Vec([i \in 1..Len(delta) |-> Max0(delta[i])])
DownMove(delta) == Vec([i \in 1..Len(delta) |-> MulInt(Min0(delta[i]), -1)])

RsiAt(up, down) ==
  RsiFill(Sub(FromInt(100), Div(FromInt(100), Add(FromInt(1), Div(up, ReplaceZero(down))))))

RsiOf(ma_up, ma_down) == Vec([i \in 1..Len(ma_up) |-> RsiAt(ma_up[i], ma_down[i])])

RsiFrom(delta) ==
  RsiOf(EwmCom(UpMove(delta), RSI_WINDOW - 1), EwmCom(DownMove(delta), RSI_WINDOW - 1))

WithRsi(frame) == SetCol(frame, "RSI", RsiFrom(Diff(frame["close"])))

\* a faulty variant: the leading ADX values are left undefined
AdxNoFill(dx) == RollingMean(dx, ADX_WINDOW)

AdxOf(dx) ==
  LET m == RollingMean(dx, ADX_WINDOW)
  IN  Vec([i \in 1..Len(dx) |-> FillNa(m[i], Zero)])

\* lines 72-86: true range, directional movement, DI, DX, ADX, column by column
Tr0(frame) ==
  SetCol(frame, "tr0",
         Vec([i \in 1..Rows(frame) |-> Sub(frame["high"][i], frame["low"][i])]))

Tr1(frame) ==
  SetCol(frame, "tr1",
         Vec([i \in 1..Rows(frame) |-> Abs(Sub(frame["high"][i], Prev(frame["close"], i)))]))

Tr2(frame) ==
  SetCol(frame, "tr2",
         Vec([i \in 1..Rows(frame) |-> Abs(Sub(frame["low"][i], Prev(frame["close"], i)))]))

Tr(frame) ==
  SetCol(frame, "TR",
         Vec([i \in 1..Rows(frame) |->
                Max3(frame["tr0"][i], frame["tr1"][i], frame["tr2"][i])]))

HighUp(frame, i) == Sub(frame["high"][i], Prev(frame["high"], i))
LowDown(frame, i) == Sub(Prev(frame["low"], i), frame["low"][i])

\* np.where(a > b, np.maximum(a, 0), 0)
Dm(a, b) == IF Gt(a, b) THEN Max0(a) ELSE Zero

PlusDm(frame) ==
  SetCol(frame, "+dm",
         Vec([i \in 1..Rows(frame) |-> Dm(HighUp(frame, i), LowDown(frame, i))]))

MinusDm(frame) ==
  SetCol(frame, "-dm",
         Vec([i \in 1..Rows(frame) |-> Dm(LowDown(frame, i), HighUp(frame, i))]))

TrS(frame) == SetCol(frame, "TR_s", RollingSum(frame["TR"], ADX_WINDOW))
PlusDmS(frame) == SetCol(frame, "+dm_s", RollingSum(frame["+dm"], ADX_WINDOW))
MinusDmS(frame) == SetCol(frame, "-dm_s", RollingSum(frame["-dm"], ADX_WINDOW))

Di(dm_s, tr_s) == MulInt(Div(dm_s, ReplaceZero(tr_s)), 100)

PlusDi(frame) ==
  SetCol(frame, "+di",
         Vec([i \in 1..Rows(frame) |-> Di(frame["+dm_s"][i], frame["TR_s"][i])]))

MinusDi(frame) ==
  SetCol(frame, "-di",
         Vec([i \in 1..Rows(frame) |-> Di(frame["-dm_s"][i], frame["TR_s"][i])]))

DxOf(pdi, mdi) == Div(MulInt(Abs(Sub(pdi, mdi)), 100), ReplaceZero(Add(pdi, mdi)))

Dx(frame) ==
  SetCol(frame, "DX",
         Vec([i \in 1..Rows(frame) |-> DxOf(frame["+di"][i], frame["-di"][i])]))

Adx(frame) == SetCol(frame, "ADX", AdxOf(frame["DX"]))

\* lines 88-91: Bollinger bands
BandsOf(frame, sma, var) ==
  SetCol(SetCol(frame, "bb_upper", Vec([i \in 1..Rows(frame) |-> Band(sma[i], var[i], 1)])),
         "bb_lower", Vec([i \in 1..Rows(frame) |-> Band(sma[i], var[i], -1)]))

WithBands(frame) ==
  BandsOf(frame, RollingMean(frame["close"], BB_WINDOW), RollingVar(frame["close"], BB_WINDOW))

\* line 93: volume moving average, back-filled
WithVolMa(frame) ==
  SetCol(frame, "vol_ma", Bfill(RollingMean(frame["volume"], VOL_WINDOW)))

\* the assignments to df of lines 55-93, in the order of the code
Step(k, frame) ==
  CASE k = 1  -> EmaFast(frame)
    [] k = 2  -> EmaSlow(frame)
    [] k = 3  -> Macd(frame)
    [] k = 4  -> MacdSignal(frame)
    [] k = 5  -> WithRsi(frame)
    [] k = 6  -> Tr0(frame)
    [] k = 7  -> Tr1(frame)
    [] k = 8  -> Tr2(frame)
    [] k = 9  -> Tr(frame)
    [] k = 10 -> PlusDm(frame)
    [] k = 11 -> MinusDm(frame)
    [] k = 12 -> TrS(frame)
    [] k = 13 -> PlusDmS(frame)
    [] k = 14 -> MinusDmS(frame)
    [] k = 15 -> PlusDi(frame)
    [] k = 16 -> MinusDi(frame)
    [] k = 17 -> Dx(frame)
    [] k = 18 -> Adx(frame)
    [] k = 19 -> WithBands(frame)
    [] k = 20 -> WithVolMa(frame)

NSteps == 20

\* steps lo..hi (lo <= hi) in order on a frame that has columns: the first
\* half of the steps, then the second half on the frame they leave
RECURSIVE Steps(_, _, _)
Steps(frame, lo, hi) ==
  IF DOMAIN frame = {} THEN frame
  ELSE IF lo = hi THEN Step(lo, frame)
  ELSE Steps(Steps(frame, lo, (lo + hi) \div 2), (lo + hi) \div 2 + 1, hi)

compute_indicators(frame) == Steps(frame, 1, NSteps)

\* df.iloc[-1]
Latest(frame) == [c \in DOMAIN frame |-> frame[c][Rows(frame)]]

(***************************************************************************)
(* evaluate_conditions(latest)                                             *)
(***************************************************************************)
BuyConditions(row) ==
  <<Gt(row["EMA_fast"], row["EMA_slow"]),
    Gt(row["MACD"], row["MACD_signal"]),
    Le(FromInt(RSI_BUY_MIN), row["RSI"]) /\ Le(row["RSI"], FromInt(RSI_BUY_MAX)),
    Ge(row["ADX"], FromInt(ADX_THRESHOLD)),
    Ge(row["volume"], row["vol_ma"]),
    GtBand(row["close"], row["bb_upper"])>>

SellConditions(row) ==
  <<Lt(row["EMA_fast"], row["EMA_slow"]),
    Lt(row["MACD"], row["MACD_signal"]),
    Le(FromInt(RSI_SELL_MIN), row["RSI"]) /\ Le(row["RSI"], FromInt(RSI_SELL_MAX)),
    Ge(row["ADX"], FromInt(ADX_THRESHOLD)),
    Ge(row["volume"], row["vol_ma"]),
    LtBand(row["close"], row["bb_lower"])>>

\* all([...])
All(bs) == \A i \in 1..Len(bs) : bs[i]

\* a faulty variant: the Bollinger conditions are not looked at
EvaluateNoBand(row) ==
  IF All(SubSeq(BuyConditions(row), 1, 5)) THEN "BUY"
  ELSE IF All(SubSeq(SellConditions(row), 1, 5)) THEN "SELL"
  ELSE "NEUTRAL"

evaluate_conditions(row) ==
  IF All(BuyConditions(row)) THEN "BUY"
  ELSE IF All(SellConditions(row)) THEN "SELL"
  ELSE "NEUTRAL"

\* a faulty variant: one timeframe is enough
ConsensusAny(votes) ==
  IF \E i \in 1..Len(votes) : votes[i] = "BUY" THEN "BUY"
  ELSE IF \E i \in 1..Len(votes) : votes[i] = "SELL" THEN "SELL"
  ELSE "NEUTRAL"

\* lines 129-134 of analyze_symbol
Consensus(votes) ==
  IF \A i \in 1..Len(votes) : votes[i] = "BUY" THEN "BUY"
  ELSE IF \A i \in 1..Len(votes) : votes[i] = "SELL" THEN "SELL"
  ELSE "NEUTRAL"

\* a frame as fetch_binance_klines returns it, from integer candles
FrameCol(rows, c) == Vec([i \in 1..Len(rows) |-> FromInt(rows[i][c])])

Frame(rows) ==
  ("high" :> FrameCol(rows, "high")) @@ ("low" :> FrameCol(rows, "low"))
  @@ ("close" :> FrameCol(rows, "close")) @@ ("volume" :> FrameCol(rows, "volume"))


(***************************************************************************)
(* Candle series.  The exchange supplies the candles; the model draws them *)
(* from a family built from a base price, a spread between high/low and    *)
(* close, a volume, and a shape of the closes.  A series of n rows is a    *)
(* flat lead-in followed by a shaped tail of at most TailRows rows, which  *)
(* bounds the size of the exact numerators.                                *)
(***************************************************************************)
MaxWindow ==
  LET m(a, b) == IF a > b THEN a ELSE b
  IN  m(ADX_WINDOW, m(BB_WINDOW, VOL_WINDOW))

\* the first row count at which ADX is a mean of ADX_WINDOW DX values
AdxRows == 2 * ADX_WINDOW - 1

\* bounds of the family
ExtraRows == 1
MaxSpread == 1
MaxDip == 1

TailRows == AdxRows + ExtraRows
Lengths == {BB_WINDOW - 1, MaxWindow + 1, LIMIT} \cup {AdxRows + k : k \in 0..ExtraRows}
Shapes == {"flat", "rise", "jump", "fall", "zigzag", "stairs", "late"}
Prices == {40, 100}
MaxVolume == 10

\* the closing moves of the "stairs" shape, after a staircase of +1 every 4 rows
StairsEnd == <<-2, -4, 6, -4, 6, -4, -4>>

RECURSIVE SumTo(_, _)
SumTo(ds, k) == IF k = 0 THEN 0 ELSE ds[k] + SumTo(ds, k - 1)

\* the close of tail row k (1..t) of a tail of t rows, as an offset from the base
Offset(shape, k, t) ==
  CASE shape = "flat"   -> 0
    [] shape = "rise"   -> k
    [] shape = "jump"   -> IF k = t THEN k + 4 ELSE k
    [] shape = "fall"   -> -k
    [] shape = "zigzag" -> k % 2
    [] shape = "stairs" ->
         \* over the last AdxRows rows: the staircase, then StairsEnd
         LET e == Len(StairsEnd)
             j == k + AdxRows - t
         IN  IF j <= 0 THEN 0
             ELSE IF j <= AdxRows - e THEN (j - 1) \div 4
             ELSE (AdxRows - e - 1) \div 4 + SumTo(StairsEnd, j - (AdxRows - e))
    [] shape = "late"   ->
         \* flat, then rising over the last ADX_WINDOW - 2 rows
         IF k <= t - (ADX_WINDOW - 2) THEN 0 ELSE k - (t - (ADX_WINDOW - 2))

Candles(n, shape, price, spread, dip) ==
  LET t == IF n > TailRows THEN TailRows ELSE n
  IN  [i \in 1..n |->
         LET c == price + (IF i <= n - t THEN 0 ELSE Offset(shape, i - (n - t), t))
         IN  [high |-> c + spread, low |-> c - spread, close |-> c,
              volume |-> IF i = n THEN MaxVolume - dip ELSE MaxVolume]]

Family ==
  {Candles(n, sh, pr, sp, dp) :
     n \in Lengths, sh \in Shapes, pr \in Prices, sp \in 0..MaxSpread, dp \in 0..MaxDip}

(***************************************************************************)
(* State.                                                                  *)
(***************************************************************************)
VARIABLES
  pc,        \* where the program is
  test_mode, \* TEST_MODE (line 17): TRUE prints, FALSE sends to Telegram
  sym,       \* index of the symbol at hand in SYMBOLS_FIXED
  tf,        \* index of the timeframe at hand in TIMEFRAMES
  signals,   \* analyze_symbol's signals
  per_tf,    \* analyze_symbol's per_tf
  df,        \* the frame at hand (analyze_symbol's df, compute_indicators' argument)
  df0,       \* the frame as it was when compute_indicators was called
  latest,    \* df.iloc[-1]
  raw,       \* the integers a snapshot was built from, when it was built directly
  signal,    \* the result of evaluate_conditions
  result,    \* what analyze_symbol returned to its caller
  call,      \* the external call in flight
  fetchLog,  \* the fetches issued by the current analyze_symbol call, in order
  flatOnly,  \* every series the current analyze_symbol call received was flat
  out        \* the last message delivered, and how

vars == <<pc, test_mode, sym, tf, signals, per_tf, df, df0, latest, raw, signal,
          result, call, fetchLog, flatOnly, out>>

progVars == <<test_mode, sym, tf, signals, per_tf, result, call, fetchLog, flatOnly, out>>

NoFrame == [c \in {} |-> <<>>]
NoRaw == [c \in {} |-> 0]
NoCall == [kind |-> "none", timeout |-> <<>>, what |-> <<>>]
NoResult == [returned |-> FALSE, raised |-> FALSE, consensus |-> "none", per_tf |-> NoFrame]
NoOut == [via |-> "none", symbol |-> "none", consensus |-> "none", details |-> NoFrame]

ProgIdle ==
  /\ sym = 1 /\ tf = 1 /\ signals = <<>> /\ per_tf = NoFrame
  /\ result = NoResult /\ call = NoCall /\ fetchLog = <<>> /\ flatOnly = TRUE
  /\ out = NoOut

\* every close of the frame is the same
IsFlat(f) == \A i \in 1..Rows(f) : f["close"][i] = f["close"][1]

(***************************************************************************)
(* The indicator engine and the evaluator called on their own.             *)
(***************************************************************************)
IndInit ==
  /\ pc = "call"
  /\ df \in {Frame(s) : s \in Family}
  /\ df0 = df
  /\ latest = NoFrame
  /\ raw = NoRaw
  /\ signal = "none"
  /\ test_mode = TRUE
  /\ ProgIdle

\* df = compute_indicators(df); latest = df.iloc[-1]
CallCompute ==
  /\ pc = "call"
  /\ df' = compute_indicators(df)
  /\ latest' = Latest(df')
  /\ pc' = "computed"
  /\ UNCHANGED <<df0, raw, signal>>
  /\ UNCHANGED progVars

\* signal = evaluate_conditions(latest)
CallEvaluate ==
  /\ pc = "computed"
  /\ signal' = evaluate_conditions(latest)
  /\ pc' = "evaluated"
  /\ UNCHANGED <<df, df0, latest, raw>>
  /\ UNCHANGED progVars

IndNext == CallCompute \/ CallEvaluate

SpecInd == IndInit /\ [][IndNext]_vars


(***************************************************************************)
(* The program: __main__ polls the symbols forever; analyze_symbol walks   *)
(* the timeframes.  Steps are cut at the external calls (the candle fetch, *)
(* the Telegram post) and at the sleep between polls; what the program     *)
(* does between two of them is one step.                                   *)
(***************************************************************************)
\* the candle series the exchange answers with
FetchSeries ==
  <<Candles(LIMIT, "flat", 100, 1, 0), Candles(BB_WINDOW - 1, "flat", 40, 0, 0),
    Candles(LIMIT, "jump", 100, 1, 0), Candles(LIMIT, "stairs", 100, 1, 0)>>

\* lines 124-126 on a frame fetched
Evaluated(f, d, row) ==
  [fetched |-> f, df |-> d, latest |-> row, signal |-> evaluate_conditions(row)]

Computed(f, d) == Evaluated(f, d, Latest(d))

Analyse(f) == Computed(f, compute_indicators(f))

\* the same on each of the series the exchange answers with, tabulated
Analysis == Vec([i \in 1..Len(FetchSeries) |-> Analyse(Frame(FetchSeries[i]))])

Init ==
  /\ pc = "main"
  /\ test_mode \in BOOLEAN
  /\ df = NoFrame /\ df0 = NoFrame /\ latest = NoFrame /\ raw = NoRaw
  /\ signal = "none"
  /\ ProgIdle

\* line 144, lines 119-120: analyze_symbol(symbol) is entered, with fresh locals;
\* the message of the previous symbol is gone
CallAnalyze ==
  /\ pc = "main"
  /\ signals' = <<>>
  /\ per_tf' = NoFrame
  /\ tf' = 1
  /\ result' = NoResult
  /\ fetchLog' = <<>>
  /\ flatOnly' = TRUE
  /\ df' = NoFrame /\ df0' = NoFrame /\ latest' = NoFrame /\ signal' = "none"
  /\ out' = NoOut
  /\ pc' = "loop"
  /\ UNCHANGED <<test_mode, sym, raw, call>>

\* lines 122-123, 36-39: the sleep, then requests.get(..., timeout=10) is issued
FetchCall ==
  /\ pc = "loop"
  /\ call' = [kind |-> "get", timeout |-> <<FETCH_TIMEOUT>>,
              what |-> <<SYMBOLS_FIXED[sym], TIMEFRAMES[tf], LIMIT>>]
  /\ fetchLog' = Append(fetchLog, TIMEFRAMES[tf])
  /\ pc' = "fetching"
  /\ UNCHANGED <<test_mode, sym, tf, signals, per_tf, df, df0, latest, raw, signal,
                 result, flatOnly, out>>

\* lines 40-52, 124-134: the exchange answers; the rest of the loop body, and
\* after the last timeframe the consensus and the return
Returned(sigs, ptf) ==
  [returned |-> TRUE, raised |-> FALSE, consensus |-> Consensus(sigs), per_tf |-> ptf]

FetchOkWith(a, sigs, ptf) ==
  /\ df0' = a.fetched
  /\ df' = a.df
  /\ latest' = a.latest
  /\ signal' = a.signal
  /\ signals' = sigs
  /\ per_tf' = ptf
  /\ flatOnly' = (flatOnly /\ IsFlat(a.fetched))
  /\ IF tf < Len(TIMEFRAMES)
     THEN tf' = tf + 1 /\ pc' = "loop" /\ result' = result
     ELSE tf' = tf /\ pc' = "emit" /\ result' = Returned(sigs, ptf)

FetchOkGot(a) ==
  FetchOkWith(a, Append(signals, a.signal), (TIMEFRAMES[tf] :> a.signal) @@ per_tf)

FetchOk ==
  /\ pc = "fetching"
  /\ \E i \in 1..Len(FetchSeries) : FetchOkGot(Analysis[i])
  /\ call' = NoCall
  /\ UNCHANGED <<test_mode, sym, raw, fetchLog, out>>

\* a faulty variant: the failure is swallowed and what was gathered is returned
FetchFailSwallowed ==
  /\ pc = "fetching"
  /\ call' = NoCall
  /\ result' = Returned(signals, per_tf)
  /\ pc' = "emit"
  /\ UNCHANGED <<test_mode, sym, tf, signals, per_tf, df, df0, latest, raw, signal,
                 fetchLog, flatOnly, out>>

\* lines 39-40: the request times out, fails or answers with an error status;
\* the exception leaves analyze_symbol and, uncaught, ends the program
FetchFail ==
  /\ pc = "fetching"
  /\ call' = NoCall
  /\ result' = [NoResult EXCEPT !.raised = TRUE]
  /\ pc' = "crashed"
  /\ UNCHANGED <<test_mode, sym, tf, signals, per_tf, df, df0, latest, raw, signal,
                 fetchLog, flatOnly, out>>

Message == [symbol |-> SYMBOLS_FIXED[sym], consensus |-> result.consensus,
            details |-> result.per_tf]

\* lines 143, 150, 142: the next symbol, or the sleep after the last one
Advance ==
  IF sym < Len(SYMBOLS_FIXED)
  THEN sym' = sym + 1 /\ pc' = "main"
  ELSE sym' = sym /\ pc' = "sleeping"

\* lines 145-147: TEST_MODE, print(msg)
PrintMsg ==
  /\ pc = "emit"
  /\ test_mode
  /\ out' = [via |-> "console"] @@ Message
  /\ Advance
  /\ UNCHANGED <<test_mode, tf, signals, per_tf, df, df0, latest, raw, signal,
                 result, call, fetchLog, flatOnly>>

\* lines 148-149, 136-139: requests.post(url, data=payload) is issued, with no
\* timeout argument
PostCall ==
  /\ pc = "emit"
  /\ ~test_mode
  /\ call' = [kind |-> "post", timeout |-> <<>>, what |-> <<Message.symbol>>]
  /\ pc' = "posting"
  /\ UNCHANGED <<test_mode, sym, tf, signals, per_tf, df, df0, latest, raw, signal,
                 result, fetchLog, flatOnly, out>>

\* line 139: Telegram answers (whatever the status: it is not looked at)
PostReturn ==
  /\ pc = "posting"
  /\ call' = NoCall
  /\ out' = [via |-> "telegram"] @@ Message
  /\ Advance
  /\ UNCHANGED <<test_mode, tf, signals, per_tf, df, df0, latest, raw, signal,
                 result, fetchLog, flatOnly>>

\* line 139: the connection fails; the exception, uncaught, ends the program
PostFail ==
  /\ pc = "posting"
  /\ call' = NoCall
  /\ pc' = "crashed"
  /\ UNCHANGED <<test_mode, sym, tf, signals, per_tf, df, df0, latest, raw, signal,
                 result, fetchLog, flatOnly, out>>

\* line 150, 142-143: time.sleep(60) ends, the next poll starts
Wake ==
  /\ pc = "sleeping"
  /\ sym' = 1
  /\ pc' = "main"
  /\ UNCHANGED <<test_mode, tf, signals, per_tf, df, df0, latest, raw, signal,
                 result, call, fetchLog, flatOnly, out>>

Next ==
  \/ CallAnalyze \/ FetchCall \/ FetchOk \/ FetchFail
  \/ PrintMsg \/ PostCall \/ PostReturn \/ PostFail \/ Wake

Spec == Init /\ [][Next]_vars


(***************************************************************************)
(* evaluate_conditions on snapshots given directly: each field is a small  *)
(* integer or NaN; the upper and lower band are bb_mid + 2 bb_sd and       *)
(* bb_mid - 2 bb_sd.                                                       *)
(***************************************************************************)
Val(k) == [nan |-> FALSE, v |-> k]
NanVal == [nan |-> TRUE, v |-> 0]

RawSnapshots ==
  [EMA_fast    : {Val(1), Val(2), Val(3), NanVal},
   EMA_slow    : {Val(2)},
   MACD        : {Val(-1), Val(0), Val(1)},
   MACD_signal : {Val(0)},
   RSI         : {Val(k) : k \in {RSI_SELL_MIN - 1, RSI_SELL_MIN, RSI_SELL_MAX,
                                  RSI_BUY_MIN, RSI_BUY_MAX, RSI_BUY_MAX + 1}}
                 \cup {NanVal},
   ADX         : {Val(ADX_THRESHOLD - 1), Val(ADX_THRESHOLD)},
   volume      : {Val(MaxVolume - 1), Val(MaxVolume)},
   vol_ma      : {Val(MaxVolume), NanVal},
   close       : {Val(97), Val(98), Val(100), Val(102), Val(103)},
   bb_mid      : {Val(100)},
   bb_sd       : {Val(0), Val(1), NanVal}]

ToNum(r) == IF r.nan THEN NaN ELSE FromInt(r.v)

\* the snapshot (a row of the frame) these integers stand for
Snapshot(r) ==
  LET var == IF r.bb_sd.nan THEN NaN ELSE FromInt(r.bb_sd.v * r.bb_sd.v)
  IN  ("EMA_fast" :> ToNum(r.EMA_fast)) @@ ("EMA_slow" :> ToNum(r.EMA_slow))
      @@ ("MACD" :> ToNum(r.MACD)) @@ ("MACD_signal" :> ToNum(r.MACD_signal))
      @@ ("RSI" :> ToNum(r.RSI)) @@ ("ADX" :> ToNum(r.ADX))
      @@ ("volume" :> ToNum(r.volume)) @@ ("vol_ma" :> ToNum(r.vol_ma))
      @@ ("close" :> ToNum(r.close))
      @@ ("bb_upper" :> Band(ToNum(r.bb_mid), var, 1))
      @@ ("bb_lower" :> Band(ToNum(r.bb_mid), var, -1))

EvalInit ==
  /\ pc = "snapshot"
  /\ raw \in RawSnapshots
  /\ latest = Snapshot(raw)
  /\ df = NoFrame /\ df0 = NoFrame /\ signal = "none"
  /\ test_mode = TRUE
  /\ ProgIdle

\* lines 96-116
Evaluate ==
  /\ pc = "snapshot"
  /\ signal' = evaluate_conditions(latest)
  /\ pc' = "evaluated"
  /\ UNCHANGED <<df, df0, latest, raw>>
  /\ UNCHANGED progVars

EvalNext == Evaluate

SpecEval == EvalInit /\ [][EvalNext]_vars


(***************************************************************************)
(* Properties.                                                             *)
(***************************************************************************)
Signals == {"BUY", "SELL", "NEUTRAL"}
TimeframeSet == {TIMEFRAMES[i] : i \in 1..Len(TIMEFRAMES)}

\* C1: once analyze_symbol has returned, its consensus is BUY exactly when
\* the signal of every timeframe is BUY, SELL exactly when the signal of
\* every timeframe is SELL, and NEUTRAL in every other case.
ConsensusIsUnanimity ==
  result.returned =>
    LET allOf(v) == \A t \in TimeframeSet : result.per_tf[t] = v
    IN  /\ result.consensus = "BUY" <=> allOf("BUY")
        /\ result.consensus = "SELL" <=> allOf("SELL")
        /\ result.consensus = "NEUTRAL" <=> (~allOf("BUY") /\ ~allOf("SELL"))
        /\ \A i \in 1..Len(TIMEFRAMES) : result.per_tf[TIMEFRAMES[i]] = signals[i]

\* a single dissenting timeframe: [BUY, BUY, BUY, SELL, BUY] gave NEUTRAL
OneDissentIsNeutral ==
  /\ result.returned
  /\ signals = <<"BUY", "BUY", "BUY", "SELL", "BUY">>
  /\ result.consensus = "NEUTRAL"

\* the conditions of the claim, on the integers the snapshot was built from
RawGt(a, b) == ~a.nan /\ ~b.nan /\ a.v > b.v
RawGe(a, b) == ~a.nan /\ ~b.nan /\ a.v >= b.v
RawBetween(lo, a, hi) == ~a.nan /\ lo <= a.v /\ a.v <= hi

RawBuy(r) ==
  <<RawGt(r.EMA_fast, r.EMA_slow),
    RawGt(r.MACD, r.MACD_signal),
    RawBetween(RSI_BUY_MIN, r.RSI, RSI_BUY_MAX),
    RawGe(r.ADX, Val(ADX_THRESHOLD)),
    RawGe(r.volume, r.vol_ma),
    ~r.bb_sd.nan /\ RawGt(r.close, Val(r.bb_mid.v + 2 * r.bb_sd.v))>>

RawSell(r) ==
  <<RawGt(r.EMA_slow, r.EMA_fast),
    RawGt(r.MACD_signal, r.MACD),
    RawBetween(RSI_SELL_MIN, r.RSI, RSI_SELL_MAX),
    RawGe(r.ADX, Val(ADX_THRESHOLD)),
    RawGe(r.volume, r.vol_ma),
    ~r.bb_sd.nan /\ RawGt(Val(r.bb_mid.v - 2 * r.bb_sd.v), r.close)>>

Holding(bs) == {i \in 1..Len(bs) : bs[i]}

\* C2: evaluate_conditions returns BUY exactly when the six BUY conditions
\* all hold, SELL exactly when the six mirrored conditions all hold, and
\* NEUTRAL otherwise.
SignalIffAllSix ==
  pc = "evaluated" =>
    LET buy  == Holding(RawBuy(raw)) = 1..6
        sell == Holding(RawSell(raw)) = 1..6
    IN  /\ signal = "BUY" <=> buy
        /\ signal = "SELL" <=> sell
        /\ signal = "NEUTRAL" <=> (~buy /\ ~sell)

\* five of the six BUY conditions hold, the Bollinger one fails: NEUTRAL
FiveOfSixIsNeutral ==
  /\ pc = "evaluated"
  /\ Holding(RawBuy(raw)) = 1..5
  /\ signal = "NEUTRAL"

StrictlyIncreasing(xs) == \A i \in 2..Len(xs) : Lt(xs[i - 1], xs[i])

\* C3: for a strictly increasing close series long enough for every window,
\* the RSI of the last row exceeds RSI_BUY_MAX and the signal is not BUY.
RisingExcludesBuy ==
  (pc = "evaluated" /\ Rows(df0) >= AdxRows /\ StrictlyIncreasing(df0["close"])) =>
    (Gt(latest["RSI"], FromInt(RSI_BUY_MAX)) /\ signal # "BUY")

\* the mean of the last ADX_WINDOW values of DX, an undefined DX counted as 0
MeanDxZeroFilled(frame) ==
  LET n  == Rows(frame)
      dx == Vec([i \in 1..n |-> FillNa(frame["DX"][i], Zero)])
  IN  DivInt(SumRange(dx, n - ADX_WINDOW + 1, n), ADX_WINDOW)

\* C4: at a row that has ADX_WINDOW DX values behind it, ADX is the mean of
\* the last ADX_WINDOW DX values, a DX with a zero denominator counted as 0.
AdxCountsUndefinedDxAsZero ==
  (pc # "call" /\ Rows(df0) >= AdxRows) => Eq(latest["ADX"], MeanDxZeroFilled(df))

\* C5: analyze_symbol returns a consensus with a signal for every
\* timeframe or returns nothing; when a fetch fails the error reaches the
\* caller, no timeframe is fetched twice and none is fetched after the
\* failure, and no partial mapping is returned.
AllOrNothing ==
  /\ result.returned =>
       /\ DOMAIN result.per_tf = TimeframeSet
       /\ \A t \in TimeframeSet : result.per_tf[t] \in Signals
       /\ result.consensus \in Signals
  /\ ~result.returned => (result.per_tf = NoFrame /\ result.consensus = "none")
  /\ result.raised =>
       /\ ~result.returned
       /\ pc = "crashed"
       /\ fetchLog = SubSeq(TIMEFRAMES, 1, tf)
  /\ fetchLog = SubSeq(TIMEFRAMES, 1, Len(fetchLog))

\* the fetch of the third timeframe failed after two had succeeded
ThirdFetchFailed ==
  /\ result.raised
  /\ Len(signals) = 2
  /\ fetchLog = <<"1m", "5m", "15m">>
  /\ result.per_tf = NoFrame

\* C6: compute_indicators leaves the frame it was passed as it was.
InputFrameUnchanged == pc # "call" => df = df0

\* C7: every external call in flight was issued with a bounded timeout.
EveryCallHasTimeout == call.kind # "none" => call.timeout # <<>>

FlatSnapshotAt(c) ==
  /\ Eq(latest["EMA_fast"], c) /\ Eq(latest["EMA_slow"], c)
  /\ IsZero(latest["MACD"])
  /\ Eq(latest["RSI"], FromInt(50))
  /\ BandIs(latest["bb_upper"], c) /\ BandIs(latest["bb_lower"], c)
  /\ signal = "NEUTRAL"

\* C8, as stated: for every series whose closes all equal c the last row has
\* EMA_fast = EMA_slow = c, MACD = 0, RSI = 50, bb_upper = bb_lower = c and
\* the signal NEUTRAL, and the consensus over such series is NEUTRAL.
FlatIsNeutralAnyLength ==
  /\ (df0 # NoFrame /\ IsFlat(df0)) => FlatSnapshotAt(df0["close"][1])
  /\ (result.returned /\ flatOnly) => result.consensus = "NEUTRAL"

\* C8, for series of at least BB_WINDOW rows: for every such series whose
\* closes all equal c the last row has EMA_fast = EMA_slow = c, MACD = 0,
\* RSI = 50, bb_upper = bb_lower = c and the signal NEUTRAL, and the
\* consensus over flat series is NEUTRAL.
FlatIsNeutral ==
  /\ (df0 # NoFrame /\ IsFlat(df0) /\ Rows(df0) >= BB_WINDOW) =>
       FlatSnapshotAt(df0["close"][1])
  /\ (result.returned /\ flatOnly) => result.consensus = "NEUTRAL"

\* every timeframe received a flat series, the last one 100 candles with close 100
FlatConsensusReached ==
  /\ result.returned /\ flatOnly
  /\ Rows(df0) = LIMIT
  /\ Eq(latest["close"], FromInt(100))
  /\ result.consensus = "NEUTRAL"

IndicatorColumns ==
  {"EMA_fast", "EMA_slow", "MACD", "MACD_signal", "RSI", "ADX", "bb_upper", "bb_lower",
   "vol_ma"}

\* C9: for a series of exactly max_window + 1 rows compute_indicators
\* returns and no indicator value of the last row is NaN.
LastRowDefined ==
  (pc # "call" /\ Rows(df0) = MaxWindow + 1) =>
    \A c \in IndicatorColumns : ~IsNaN(latest[c])

\* a series of max_window + 1 rows that is not flat went through
ShortSeriesComputed ==
  /\ pc = "computed"
  /\ Rows(df0) = MaxWindow + 1
  /\ ~IsFlat(df0)

====
